---- MODULE Spec2Model ----
(***************************************************************************)
(* State-machine model of vllm/v1/metrics/statsd.py: the StatsD UDP client,*)
(* the StatsDStatLogger stats-to-metric mapping, the module-level client   *)
(* registry (get_statsd_client) and the ad hoc recorder (record_metric).   *)
(*                                                                         *)
(* Every public call is one action (the whole call, all sends included).   *)
(* `op` holds the last call and its arguments, `out` what that call did:   *)
(* the client-method calls it made, the datagrams that reached the socket, *)
(* the values handed to record_vision_encoding_time, whether an exception  *)
(* reached the caller, the returned client, and whether the environment    *)
(* was read / a StatsDClient construction was attempted.                   *)
(***************************************************************************)
EXTENDS Integers, Sequences, FiniteSets, TLC

VARIABLES
    env,             \* os.environ restricted to the two VLLM_STATSD_* names
    clients,         \* heap of StatsDClient instances; an instance is its index
    _statsd_client,  \* the module global: 0 is None, else an index of clients
    logger,          \* the StatsDStatLogger instance: [built, client]
    op,              \* the last call: its name and arguments
    out,             \* what the last call did (see above)
    stats,           \* the snapshots the engine holds for its next record call
    hist,            \* history: outcome of the first get_statsd_client call
    pc,              \* per thread: position inside get_statsd_client
    frame            \* per thread: locals of get_statsd_client, and its result

vars == <<env, clients, _statsd_client, logger, stats, op, out, hist, pc, frame>>

(***************************************************************************)
(* Bounds of the model.                                                    *)
(***************************************************************************)
MaxClients == 1      \* StatsDClient instances built directly
MaxSamples == 3      \* total length of the four lists of one IterationStats
NumThreads == 2      \* threads calling get_statsd_client concurrently

(***************************************************************************)
(* Program constants.                                                      *)
(***************************************************************************)
DefaultPort == 8125          \* os.getenv("VLLM_STATSD_PORT", "8125")
MsPerSecond == 1000          \* "* 1000" of every timing
PercentFactor == 100         \* kv_cache_usage * 100
CounterDefault == 1          \* counter(metric, value=1)

None == 0

(***************************************************************************)
(* Python numbers.  A number is [k, m]: k is "int" or "float", m its value *)
(* in thousandths, so 1.5 is [float, 1500] and 3 is [int, 3000].  Str is   *)
(* Python's str(): "3" for an int, "1.5" / "10.0" for a float.             *)
(***************************************************************************)
PyInt(n) == [k |-> "int", m |-> n * 1000]
PyFloat(milli) == [k |-> "float", m |-> milli]

\* x * c for an int literal c: int * int is an int, float * int a float.
Mul(x, c) == [k |-> x.k, m |-> x.m * c]

FracDigits(f) ==
    IF f = 0 THEN "0"
    ELSE IF f % 100 = 0 THEN ToString(f \div 100)
    ELSE IF f % 10 = 0
         THEN (IF f < 100 THEN "0" ELSE "") \o ToString(f \div 10)
    ELSE (IF f < 10 THEN "00" ELSE IF f < 100 THEN "0" ELSE "") \o ToString(f)

Str(x) ==
    IF x.k = "int" THEN ToString(x.m \div 1000)
    ELSE ToString(x.m \div 1000) \o "." \o FracDigits(x.m % 1000)

(***************************************************************************)
(* StatsDClient                                                            *)
(***************************************************************************)
\* What can go wrong inside the try block of _send, and where.
FaultStages == {"format", "encode", "sendto"}
\* A fault [at, stage]: the at-th _send of a call raises at `stage`.
NoFault == [at |-> 0, stage |-> "none"]
Faults == {NoFault} \cup {[at |-> 1, stage |-> s] : s \in FaultStages}
FaultOf(fault, i) == IF fault.at = i THEN fault.stage ELSE "none"

\* __init__: socket.socket(...) either yields a socket or raises OSError.
StatsDClient(host, port, prefix, sockOk) ==
    [ok   |-> sockOk,
     self |-> [host |-> host, port |-> port, prefix |-> prefix, sock |-> "udp"]]

\* f"{self.prefix}.{metric}:{value}|{metric_type}"
Message(self, metric, value, metric_type) ==
    self.prefix \o "." \o metric \o ":" \o Str(value) \o "|" \o metric_type

\* _send with every exception of the try block propagating (no except clause
\* matching it): the caller sees the error.
SendPropagating(self, metric, value, metric_type, stage) ==
    [raised |-> stage # "none",
     sent   |-> IF stage = "none"
                THEN <<[addr    |-> <<self.host, self.port>>,
                        payload |-> Message(self, metric, value, metric_type)]>>
                ELSE <<>>,
     self   |-> self]

\* _send with the type code dropped from the message.
SendNoType(self, metric, value, metric_type, stage) ==
    [raised |-> FALSE,
     sent   |-> IF stage = "none"
                THEN <<[addr    |-> <<self.host, self.port>>,
                        payload |-> self.prefix \o "." \o metric \o ":" \o Str(value)]>>
                ELSE <<>>,
     self   |-> self]

\* _send that rebinds self.prefix to the full metric path.
SendRebinding(self, metric, value, metric_type, stage) ==
    [raised |-> FALSE,
     sent   |-> IF stage = "none"
                THEN <<[addr    |-> <<self.host, self.port>>,
                        payload |-> Message(self, metric, value, metric_type)]>>
                ELSE <<>>,
     self   |-> [self EXCEPT !.prefix = self.prefix \o "." \o metric]]

\* _send: format, encode, sendto inside try; except Exception: pass.
\* `stage` is the statement of the try block that raises ("none": nothing does).
\* One sendto at most, no retry; the instance is left as it was.
_send(self, metric, value, metric_type, stage) ==
    [raised |-> FALSE,
     sent   |-> IF stage = "none"
                THEN <<[addr    |-> <<self.host, self.port>>,
                        payload |-> Message(self, metric, value, metric_type)]>>
                ELSE <<>>,
     self   |-> self]

\* A client-method call as data: [method, metric, value].
Call(method, metric, value) == [method |-> method, metric |-> metric, value |-> value]

timing(self, metric, value_ms, stage) == _send(self, metric, value_ms, "ms", stage)
gauge(self, metric, value, stage) == _send(self, metric, value, "g", stage)
counter(self, metric, value, stage) == _send(self, metric, value, "c", stage)

Invoke(self, c, stage) ==
    CASE c.method = "timing"  -> timing(self, c.metric, c.value, stage)
      [] c.method = "gauge"   -> gauge(self, c.metric, c.value, stage)
      [] c.method = "counter" -> counter(self, c.metric, c.value, stage)

\* The statements self.client.<method>(...) of one caller, run in order from
\* the i-th on: an exception leaving a method ends the caller there.
RECURSIVE RunCalls(_, _, _, _)
RunCalls(self, cs, i, fault) ==
    IF i > Len(cs)
    THEN [calls |-> <<>>, wire |-> <<>>, raised |-> FALSE, self |-> self]
    ELSE LET r == Invoke(self, cs[i], FaultOf(fault, i))
         IN  IF r.raised
             THEN [calls |-> <<cs[i]>>, wire |-> r.sent, raised |-> TRUE, self |-> r.self]
             ELSE LET rest == RunCalls(r.self, cs, i + 1, fault)
                  IN  [calls  |-> <<cs[i]>> \o rest.calls,
                       wire   |-> r.sent \o rest.wire,
                       raised |-> rest.raised,
                       self   |-> rest.self]

(***************************************************************************)
(* What a call did.                                                        *)
(***************************************************************************)
Quiet == [calls |-> <<>>, wire |-> <<>>, sink |-> <<>>, raised |-> FALSE,
          ret |-> None, envRead |-> FALSE, attempted |-> FALSE]

InitOp == [name |-> "start"]

Hosts == {"h1", "h2"}
Prefixes == {"vllm", "app"}
AdHocMetrics == {"x", "vision_encoding_seconds"}
AdHocValues == {PyInt(2), PyFloat(1500)}

Threads == 1..NumThreads

\* An Optional[str] is a sequence of length 0 (None) or 1.
Absent == << >>
Truthy(opt) == opt # Absent /\ opt[1] # ""

\* os.environ as far as this module reads it.
HostSettings == {Absent, <<"">>, <<"h1">>}
PortSettings == {Absent, <<"9125">>, <<"abc">>}
Envs == [host : HostSettings, port : PortSettings]

\* os.getenv(name) and os.getenv(name, default)
Getenv(e, name) == e[name]
GetenvDefault(e, name, default) == IF e[name] = Absent THEN default ELSE e[name][1]

\* int(s): [ok, n]; ok is FALSE where Python raises ValueError.
IntOf(s) ==
    CASE s = "8125" -> [ok |-> TRUE, n |-> DefaultPort]
      [] s = "9125" -> [ok |-> TRUE, n |-> 9125]
      [] OTHER      -> [ok |-> FALSE, n |-> 0]

\* Nothing observed yet: no get_statsd_client call has returned.
NoHistory == [first |-> "pending", live |-> None, fields |-> Absent]

NoStats == [scheduler_stats |-> Absent, iteration_stats |-> Absent,
            mm_cache_stats |-> Absent]

\* Everything but the environment, at import time.
Fresh ==
    /\ clients = << >>
    /\ _statsd_client = None
    /\ logger = [built |-> FALSE, client |-> None]
    /\ stats = NoStats
    /\ op = InitOp
    /\ out = Quiet
    /\ hist = NoHistory
    /\ pc = [t \in Threads |-> "idle"]
    /\ frame = [t \in Threads |->
                  [host |-> Absent, port |-> "", new |-> None, ret |-> None]]

Init == env = [host |-> Absent, port |-> Absent] /\ Fresh

(***************************************************************************)
(* The client on its own: construction and the three public methods.       *)
(***************************************************************************)
NewClient(host, port, prefix, sockOk) ==
    /\ Len(clients) < MaxClients
    /\ LET c == StatsDClient(host, port, prefix, sockOk)
       IN  /\ clients' = IF c.ok THEN Append(clients, c.self) ELSE clients
           /\ op' = [name |-> "StatsDClient", host |-> host, port |-> port,
                     prefix |-> prefix]
           /\ out' = [Quiet EXCEPT !.raised = ~c.ok,
                                   !.ret = IF c.ok THEN Len(clients) + 1 ELSE None,
                                   !.attempted = TRUE]
    /\ UNCHANGED <<env, _statsd_client, logger, stats, hist, pc, frame>>

ClientCall(id, method, metric, value, fault) ==
    /\ id \in 1..Len(clients)
    /\ LET r == RunCalls(clients[id], <<Call(method, metric, value)>>, 1, fault)
       IN  /\ clients' = [clients EXCEPT ![id] = r.self]
           /\ op' = [name |-> method, self |-> id, metric |-> metric,
                     value |-> value, fault |-> fault]
           /\ out' = [Quiet EXCEPT !.calls = r.calls, !.wire = r.wire,
                                   !.raised = r.raised]
    /\ UNCHANGED <<env, _statsd_client, logger, stats, hist, pc, frame>>

ClientTiming ==
    \E id \in 1..Len(clients), m \in AdHocMetrics, v \in AdHocValues, f \in Faults :
        ClientCall(id, "timing", m, v, f)

ClientGauge ==
    \E id \in 1..Len(clients), m \in AdHocMetrics, v \in AdHocValues, f \in Faults :
        ClientCall(id, "gauge", m, v, f)

ClientCounter ==
    \E id \in 1..Len(clients), m \in AdHocMetrics, f \in Faults :
        \E v \in AdHocValues \cup {PyInt(CounterDefault)} :
            ClientCall(id, "counter", m, v, f)

ClientNew ==
    \E h \in Hosts, p \in {DefaultPort}, x \in Prefixes, ok \in BOOLEAN :
        NewClient(h, p, x, ok)

NextClient == ClientNew \/ ClientTiming \/ ClientGauge \/ ClientCounter

SpecClient == Init /\ [][NextClient]_vars

(***************************************************************************)
(* The registry and the ad hoc recorder, called one call at a time.        *)
(***************************************************************************)
\* get_statsd_client without the `is None` test: every call reads the
\* environment and builds a client again.
GetClientNoMemo(reg, heap, e, sockOk) ==
    LET host == Getenv(e, "host")
        port == IntOf(GetenvDefault(e, "port", "8125"))
        c    == StatsDClient(IF Truthy(host) THEN host[1] ELSE "", port.n, "vllm",
                             sockOk)
    IN  IF Truthy(host) /\ port.ok /\ c.ok
        THEN [reg |-> Len(heap) + 1, heap |-> Append(heap, c.self),
              ret |-> Len(heap) + 1, envRead |-> TRUE, attempted |-> TRUE]
        ELSE [reg |-> reg, heap |-> heap, ret |-> reg, envRead |-> TRUE,
              attempted |-> Truthy(host) /\ port.ok]

\* get_statsd_client: the whole call.  reg is the global before the call,
\* heap the instances; the result gives both after it, the value returned,
\* and whether os.getenv / the StatsDClient constructor were called.
get_statsd_client(reg, heap, e, sockOk) ==
    IF reg = None
    THEN LET host == Getenv(e, "host")
             port == GetenvDefault(e, "port", "8125")
         IN  IF Truthy(host)
             THEN LET n == IntOf(port)                       \* int(port)
                      c == StatsDClient(host[1], n.n, "vllm", sockOk)
                  IN  IF n.ok /\ c.ok
                      THEN [reg |-> Len(heap) + 1, heap |-> Append(heap, c.self),
                            ret |-> Len(heap) + 1, envRead |-> TRUE,
                            attempted |-> TRUE]
                      ELSE \* except Exception: pass
                           [reg |-> None, heap |-> heap, ret |-> None,
                            envRead |-> TRUE, attempted |-> n.ok]
             ELSE [reg |-> None, heap |-> heap, ret |-> None,
                   envRead |-> TRUE, attempted |-> FALSE]
    ELSE [reg |-> reg, heap |-> heap, ret |-> reg,
          envRead |-> FALSE, attempted |-> FALSE]

\* History kept for the properties: the outcome of the first
\* get_statsd_client call, the first live instance any call returned, and
\* that instance's fields at that moment.
Noted(h, ret, heap) ==
    [first  |-> IF h.first # "pending" THEN h.first
                ELSE IF ret = None THEN "unconfigured" ELSE "live",
     live   |-> IF h.live # None THEN h.live ELSE ret,
     fields |-> IF h.live # None \/ ret = None THEN h.fields ELSE <<heap[ret]>>]

SetEnv(e) ==
    /\ e # env
    /\ env' = e
    /\ op' = [name |-> "setenv"]
    /\ out' = Quiet
    /\ UNCHANGED <<clients, _statsd_client, logger, stats, hist, pc, frame>>

GetStatsdClient(sockOk) ==
    LET g == get_statsd_client(_statsd_client, clients, env, sockOk)
    IN  /\ _statsd_client' = g.reg
        /\ clients' = g.heap
        /\ op' = [name |-> "get_statsd_client", before |-> _statsd_client,
                  initial |-> hist.first = "pending"]
        /\ out' = [Quiet EXCEPT !.ret = g.ret, !.envRead = g.envRead,
                                !.attempted = g.attempted]
        /\ hist' = Noted(hist, g.ret, g.heap)
        /\ UNCHANGED <<env, logger, stats, pc, frame>>

MetricTypes == {"timing", "counter", "gauge", "histogram"}

\* record_metric whose buffer write happens only when no client is configured.
AdHocCallsExclusive(metric, value, metric_type, client) ==
    [sink  |-> IF metric = "vision_encoding_seconds" /\ metric_type = "timing"
                  /\ client = None
               THEN <<value>> ELSE <<>>,
     calls |-> IF client = None THEN <<>>
               ELSE CASE metric_type = "timing"  ->
                           <<Call("timing", metric, Mul(value, MsPerSecond))>>
                      [] metric_type = "counter" -> <<Call("counter", metric, value)>>
                      [] metric_type = "gauge"   -> <<Call("gauge", metric, value)>>
                      [] OTHER                   -> <<>>]

\* record_metric, lines 146-157: what goes to record_vision_encoding_time, and
\* the client-method call made when get_statsd_client returned `client`.
AdHocCalls(metric, value, metric_type, client) ==
    [sink  |-> IF metric = "vision_encoding_seconds" /\ metric_type = "timing"
               THEN <<value>> ELSE <<>>,
     calls |-> IF client = None THEN <<>>
               ELSE CASE metric_type = "timing"  ->
                           <<Call("timing", metric, Mul(value, MsPerSecond))>>
                      [] metric_type = "counter" -> <<Call("counter", metric, value)>>
                      [] metric_type = "gauge"   -> <<Call("gauge", metric, value)>>
                      [] OTHER                   -> <<>>]

RecordMetric(metric, value, metric_type, sockOk, fault) ==
    LET g == get_statsd_client(_statsd_client, clients, env, sockOk)
        a == AdHocCalls(metric, value, metric_type, g.ret)
        r == IF a.calls = <<>>
             THEN [calls |-> <<>>, wire |-> <<>>, raised |-> FALSE]
             ELSE RunCalls(g.heap[g.ret], a.calls, 1, fault)
    IN  /\ _statsd_client' = g.reg
        /\ clients' = IF a.calls = <<>> THEN g.heap
                      ELSE [g.heap EXCEPT ![g.ret] = r.self]
        /\ op' = [name |-> "record_metric", metric |-> metric, value |-> value,
                  metric_type |-> metric_type, before |-> _statsd_client,
                  initial |-> hist.first = "pending", fault |-> fault]
        /\ out' = [calls |-> r.calls, wire |-> r.wire, sink |-> a.sink,
                   raised |-> r.raised, ret |-> g.ret, envRead |-> g.envRead,
                   attempted |-> g.attempted]
        /\ hist' = Noted(hist, g.ret, g.heap)
        /\ UNCHANGED <<env, logger, stats, pc, frame>>

EnvChange == \E e \in Envs : SetEnv(e)
GetClient == \E ok \in BOOLEAN : GetStatsdClient(ok)
\* In these calls the one send either goes through or sendto raises.
SendFaults == {NoFault, [at |-> 1, stage |-> "sendto"]}

AdHoc ==
    \E m \in AdHocMetrics, v \in AdHocValues, k \in MetricTypes,
       ok \in BOOLEAN, f \in SendFaults :
        RecordMetric(m, v, k, ok, f)

\* A caller uses the client get_statsd_client gave it.
UseClient ==
    \E k \in {"timing", "gauge", "counter"}, m \in AdHocMetrics, v \in AdHocValues,
       f \in SendFaults :
        /\ _statsd_client # None
        /\ ClientCall(_statsd_client, k, m, v, f)

Next == EnvChange \/ GetClient \/ AdHoc \/ UseClient

Spec == Init /\ [][Next]_vars

(***************************************************************************)
(* StatsDStatLogger.  The engine holds the three snapshots of the current  *)
(* scheduling step in `stats` and passes them to record.                   *)
(***************************************************************************)
Present(opt) == opt # Absent

SchedulerStats(connector) ==
    [num_running_reqs |-> PyInt(3), num_waiting_reqs |-> PyInt(1),
     kv_cache_usage |-> PyFloat(500),
     prefix_cache_stats |-> [queries |-> PyInt(8), hits |-> PyInt(4)],
     connector_prefix_cache_stats |-> connector]

SchedulerSnapshots ==
    {SchedulerStats(Absent), SchedulerStats(<<[queries |-> PyInt(6), hits |-> PyInt(2)]>>)}

MultiModalCacheStats == [queries |-> PyInt(5), hits |-> PyInt(3)]

IterationStats ==
    [num_preempted_reqs |-> PyInt(0), num_prompt_tokens |-> PyInt(7),
     num_generation_tokens |-> PyInt(9),
     time_to_first_tokens_iter |-> <<>>, inter_token_latencies_iter |-> <<>>,
     vision_encoding_times_iter |-> <<>>, finished_requests |-> <<>>]

IterFields == {"time_to_first_tokens_iter", "inter_token_latencies_iter",
               "vision_encoding_times_iter"}
Samples == {PyFloat(10), PyFloat(20)}

FinishedRequests ==
    {[finish_reason |-> "stop", e2e_latency |-> PyFloat(2000),
      queued_time |-> PyFloat(500), inference_time |-> PyFloat(1500),
      prefill_time |-> PyFloat(250), decode_time |-> PyFloat(1250)],
     [finish_reason |-> "length", e2e_latency |-> PyFloat(3000),
      queued_time |-> PyFloat(100), inference_time |-> PyFloat(2900),
      prefill_time |-> PyFloat(400), decode_time |-> PyFloat(2500)]}

\* The loop stopping one element short.
TimingsDropLast(metric, xs) ==
    [i \in 1..(Len(xs) - 1) |-> Call("timing", metric, Mul(xs[i], MsPerSecond))]

\* One client.timing call per element of a list, in list order (lines 100-107).
Timings(metric, xs) ==
    [i \in 1..Len(xs) |-> Call("timing", metric, Mul(xs[i], MsPerSecond))]

\* Lines 110-117 for one finished request.
FinishedCalls(req) ==
    <<Call("counter", "request_success." \o req.finish_reason, PyInt(CounterDefault)),
      Call("timing", "e2e_request_latency_seconds", Mul(req.e2e_latency, MsPerSecond)),
      Call("timing", "request_queue_time_seconds", Mul(req.queued_time, MsPerSecond)),
      Call("timing", "request_inference_time_seconds",
           Mul(req.inference_time, MsPerSecond)),
      Call("timing", "request_prefill_time_seconds", Mul(req.prefill_time, MsPerSecond)),
      Call("timing", "request_decode_time_seconds", Mul(req.decode_time, MsPerSecond))>>

RECURSIVE FinishedLoop(_, _)
FinishedLoop(reqs, i) ==
    IF i > Len(reqs) THEN <<>>
    ELSE FinishedCalls(reqs[i]) \o FinishedLoop(reqs, i + 1)

\* The scheduler block without the kv_cache_usage_perc gauge.
SchedulerCallsNoUsage(scheduler_stats) ==
    IF Present(scheduler_stats)
    THEN LET s == scheduler_stats[1]
         IN  <<Call("gauge", "num_requests_running", s.num_running_reqs),
               Call("gauge", "num_requests_waiting", s.num_waiting_reqs),
               Call("counter", "prefix_cache_queries", s.prefix_cache_stats.queries),
               Call("counter", "prefix_cache_hits", s.prefix_cache_stats.hits)>>
             \o (IF Present(s.connector_prefix_cache_stats)
                 THEN <<Call("counter", "external_prefix_cache_queries",
                             s.connector_prefix_cache_stats[1].queries),
                        Call("counter", "external_prefix_cache_hits",
                             s.connector_prefix_cache_stats[1].hits)>>
                 ELSE <<>>)
    ELSE <<>>

\* Lines 66-87.
SchedulerCalls(scheduler_stats) ==
    IF Present(scheduler_stats)
    THEN LET s == scheduler_stats[1]
         IN  <<Call("gauge", "num_requests_running", s.num_running_reqs),
               Call("gauge", "num_requests_waiting", s.num_waiting_reqs),
               Call("gauge", "kv_cache_usage_perc", Mul(s.kv_cache_usage, PercentFactor)),
               Call("counter", "prefix_cache_queries", s.prefix_cache_stats.queries),
               Call("counter", "prefix_cache_hits", s.prefix_cache_stats.hits)>>
             \o (IF Present(s.connector_prefix_cache_stats)
                 THEN <<Call("counter", "external_prefix_cache_queries",
                             s.connector_prefix_cache_stats[1].queries),
                        Call("counter", "external_prefix_cache_hits",
                             s.connector_prefix_cache_stats[1].hits)>>
                 ELSE <<>>)
    ELSE <<>>

\* Lines 89-91.
MMCacheCalls(mm_cache_stats) ==
    IF Present(mm_cache_stats)
    THEN <<Call("counter", "mm_cache_queries", mm_cache_stats[1].queries),
           Call("counter", "mm_cache_hits", mm_cache_stats[1].hits)>>
    ELSE <<>>

\* Lines 93-117.
IterationCalls(iteration_stats) ==
    IF ~Present(iteration_stats) THEN <<>>
    ELSE LET it == iteration_stats[1]
         IN  <<Call("counter", "num_preemptions", it.num_preempted_reqs),
               Call("counter", "prompt_tokens", it.num_prompt_tokens),
               Call("counter", "generation_tokens", it.num_generation_tokens)>>
             \o Timings("time_to_first_token_seconds", it.time_to_first_tokens_iter)
             \o Timings("inter_token_latency_seconds", it.inter_token_latencies_iter)
             \o Timings("vision_encoding_seconds", it.vision_encoding_times_iter)
             \o FinishedLoop(it.finished_requests, 1)

\* record without the test of self.client.
RecordUnguarded(client, scheduler_stats, iteration_stats, mm_cache_stats) ==
    SchedulerCalls(scheduler_stats)
    \o MMCacheCalls(mm_cache_stats)
    \o IterationCalls(iteration_stats)

\* record with the mm_cache pair sent before the scheduler metrics.
RecordMMFirst(client, scheduler_stats, iteration_stats, mm_cache_stats) ==
    IF client = None THEN <<>>
    ELSE MMCacheCalls(mm_cache_stats)
         \o SchedulerCalls(scheduler_stats)
         \o IterationCalls(iteration_stats)

\* record: the client-method calls it makes, in order.  client is self.client
\* (None: return at once).  engine_idx is accepted and not used.
record(client, scheduler_stats, iteration_stats, mm_cache_stats) ==
    IF client = None THEN <<>>
    ELSE SchedulerCalls(scheduler_stats)
         \o MMCacheCalls(mm_cache_stats)
         \o IterationCalls(iteration_stats)

\* StatsDStatLogger.__init__ under environment e: [ok, client].  int() of a
\* bad port and a failing socket.socket both raise out of the constructor
\* (ok is FALSE: no logger exists); client is absent when host is not set.
StatsDStatLogger(e, sockOk) ==
    LET host == Getenv(e, "host")
        port == IntOf(GetenvDefault(e, "port", "8125"))
    IN  IF ~port.ok THEN [ok |-> FALSE, client |-> Absent]
        ELSE IF Truthy(host)
             THEN LET c == StatsDClient(host[1], port.n, "vllm", sockOk)
                  IN  [ok |-> c.ok, client |-> <<c.self>>]
             ELSE [ok |-> TRUE, client |-> Absent]

Record(fault) ==
    /\ logger.built
    /\ LET cs == record(logger.client, stats.scheduler_stats, stats.iteration_stats,
                        stats.mm_cache_stats)
           r  == IF cs = <<>>
                 THEN [calls |-> <<>>, wire |-> <<>>, raised |-> FALSE]
                 ELSE IF logger.client = None
                 THEN \* a method call on None: AttributeError
                      [calls |-> <<>>, wire |-> <<>>, raised |-> TRUE]
                 ELSE RunCalls(clients[logger.client], cs, 1, fault)
       IN  /\ clients' = IF cs = <<>> \/ logger.client = None THEN clients
                         ELSE [clients EXCEPT ![logger.client] = r.self]
           /\ op' = [name |-> "record", fault |-> fault]
           /\ out' = [Quiet EXCEPT !.calls = r.calls, !.wire = r.wire,
                                   !.raised = r.raised]
    /\ UNCHANGED <<env, _statsd_client, logger, stats, hist, pc, frame>>

\* log and log_engine_initialized: pass.
Log ==
    /\ logger.built
    /\ op' = [name |-> "log"]
    /\ out' = Quiet
    /\ UNCHANGED <<env, clients, _statsd_client, logger, stats, hist, pc, frame>>

LogEngineInitialized ==
    /\ logger.built
    /\ op' = [name |-> "log_engine_initialized"]
    /\ out' = Quiet
    /\ UNCHANGED <<env, clients, _statsd_client, logger, stats, hist, pc, frame>>

\* The engine side: it replaces or extends the snapshots of the current step.
Engine(s) ==
    /\ stats' = s
    /\ op' = [name |-> "engine"]
    /\ out' = Quiet
    /\ UNCHANGED <<env, clients, _statsd_client, logger, hist, pc, frame>>

IterLen(it) ==
    Len(it.time_to_first_tokens_iter) + Len(it.inter_token_latencies_iter)
        + Len(it.vision_encoding_times_iter) + Len(it.finished_requests)

EngineScheduler ==
    \E s \in {Absent} \cup {<<x>> : x \in SchedulerSnapshots} :
        /\ s # stats.scheduler_stats
        /\ Engine([stats EXCEPT !.scheduler_stats = s])

EngineMMCache ==
    \E m \in {Absent, <<MultiModalCacheStats>>} :
        /\ m # stats.mm_cache_stats
        /\ Engine([stats EXCEPT !.mm_cache_stats = m])

EngineIteration ==
    \E i \in {Absent, <<IterationStats>>} :
        /\ i # stats.iteration_stats
        /\ Engine([stats EXCEPT !.iteration_stats = i])

EngineSample ==
    \E f \in IterFields, v \in Samples :
        /\ Present(stats.iteration_stats)
        /\ IterLen(stats.iteration_stats[1]) < MaxSamples
        /\ Engine([stats EXCEPT !.iteration_stats[1][f] = Append(@, v)])

EngineFinish ==
    \E r \in FinishedRequests :
        /\ Present(stats.iteration_stats)
        /\ IterLen(stats.iteration_stats[1]) < MaxSamples
        /\ Engine([stats EXCEPT !.iteration_stats[1].finished_requests = Append(@, r)])

RecordStep ==
    \E f \in IF logger.client = None THEN {NoFault} ELSE SendFaults : Record(f)

NextLogger ==
    \/ RecordStep \/ Log \/ LogEngineInitialized
    \/ EngineScheduler \/ EngineMMCache \/ EngineIteration \/ EngineSample
    \/ EngineFinish

\* The logger's environment at construction (default port).
LoggerEnvs == {e \in Envs : e.port = Absent}

\* The state after StatsDStatLogger(vllm_config, engine_indexes) returned.
InitLogger ==
    \E e \in LoggerEnvs :
        LET made == StatsDStatLogger(e, TRUE)
        IN  /\ made.ok
            /\ env = e
            /\ clients = made.client
            /\ logger = [built |-> TRUE, client |-> Len(made.client)]
            /\ _statsd_client = None
            /\ stats = NoStats
            /\ op = [name |-> "StatsDStatLogger"]
            /\ out = [Quiet EXCEPT !.envRead = TRUE, !.attempted = Truthy(e.host)]
            /\ hist = NoHistory
            /\ pc = [t \in Threads |-> "idle"]
            /\ frame = [t \in Threads |->
                          [host |-> Absent, port |-> "", new |-> None, ret |-> None]]

SpecLogger == InitLogger /\ [][NextLogger]_vars

(***************************************************************************)
(* get_statsd_client called from several threads.  The function takes no   *)
(* lock; the interpreter may switch threads between any two of its steps   *)
(* (each os.getenv and the StatsDClient constructor is a call).            *)
(***************************************************************************)
BlankFrame == [host |-> Absent, port |-> "", new |-> None, ret |-> None]

\* A thread enters get_statsd_client.
Enter(t) ==
    /\ pc[t] = "idle"
    /\ pc' = [pc EXCEPT ![t] = "test"]
    /\ frame' = [frame EXCEPT ![t] = BlankFrame]
    /\ UNCHANGED <<env, clients, _statsd_client, logger, stats, op, out, hist>>

\* Line 129: if _statsd_client is None
Test(t) ==
    /\ pc[t] = "test"
    /\ pc' = [pc EXCEPT ![t] = IF _statsd_client = None THEN "getenv" ELSE "return"]
    /\ UNCHANGED <<env, clients, _statsd_client, logger, stats, op, out, hist, frame>>

\* Lines 130-132: the two os.getenv calls, and `if host:`
ReadEnv(t) ==
    /\ pc[t] = "getenv"
    /\ frame' = [frame EXCEPT ![t].host = Getenv(env, "host"),
                              ![t].port = GetenvDefault(env, "port", "8125")]
    /\ pc' = [pc EXCEPT ![t] = IF Truthy(Getenv(env, "host")) THEN "construct"
                                ELSE "return"]
    /\ UNCHANGED <<env, clients, _statsd_client, logger, stats, op, out, hist>>

\* Line 134, right-hand side: StatsDClient(host, int(port)), inside try.
Build(t, sockOk) ==
    /\ pc[t] = "construct"
    /\ LET n == IntOf(frame[t].port)
           c == StatsDClient(frame[t].host[1], n.n, "vllm", sockOk)
       IN  IF n.ok /\ c.ok
           THEN /\ clients' = Append(clients, c.self)
                /\ frame' = [frame EXCEPT ![t].new = Len(clients) + 1]
                /\ pc' = [pc EXCEPT ![t] = "store"]
           ELSE /\ pc' = [pc EXCEPT ![t] = "return"]      \* except Exception: pass
                /\ UNCHANGED <<clients, frame>>
    /\ UNCHANGED <<env, _statsd_client, logger, stats, op, out, hist>>

\* Line 134, the assignment to the global.
Store(t) ==
    /\ pc[t] = "store"
    /\ _statsd_client' = frame[t].new
    /\ pc' = [pc EXCEPT ![t] = "return"]
    /\ UNCHANGED <<env, clients, logger, stats, op, out, hist, frame>>

\* Line 137: return _statsd_client
Return(t) ==
    /\ pc[t] = "return"
    /\ frame' = [frame EXCEPT ![t].ret = _statsd_client]
    /\ pc' = [pc EXCEPT ![t] = "idle"]
    /\ op' = [name |-> "get_statsd_client", thread |-> t]
    /\ out' = [Quiet EXCEPT !.ret = _statsd_client]
    /\ hist' = Noted(hist, _statsd_client, clients)
    /\ UNCHANGED <<env, clients, _statsd_client, logger, stats>>

ThreadEnter == \E t \in Threads : Enter(t)
ThreadTest == \E t \in Threads : Test(t)
ThreadReadEnv == \E t \in Threads : ReadEnv(t)
ThreadBuild == \E t \in Threads, ok \in BOOLEAN : Build(t, ok)
ThreadStore == \E t \in Threads : Store(t)
ThreadReturn == \E t \in Threads : Return(t)

NextConc ==
    \/ ThreadEnter \/ ThreadTest \/ ThreadReadEnv \/ ThreadBuild \/ ThreadStore
    \/ ThreadReturn

\* The process starts with VLLM_STATSD_HOST set.
InitConc == env = [host |-> <<"h1">>, port |-> Absent] /\ Fresh

SpecConc == InitConc /\ [][NextConc]_vars

(***************************************************************************)
(* Properties.                                                             *)
(***************************************************************************)
Methods == {"timing", "gauge", "counter"}
IsMethodCall == op.name \in Methods
IsRegistryCall == op.name \in {"get_statsd_client", "record_metric"}
IsRecord == op.name = "record"

\* The text a datagram must carry for one client-method call.
Expected(self, c, code) ==
    self.prefix \o "." \o c.metric \o ":" \o Str(c.value) \o "|" \o code

CodeOf(c) == IF c.method = "timing" THEN "ms" ELSE IF c.method = "gauge" THEN "g" ELSE "c"

\* C1: timing, gauge and counter (all through _send) always return normally,
\* whichever statement of the try block raises; a call sends at most one
\* datagram, and none once something raised: there is no retry.
C1_SendNeverFails ==
    IsMethodCall =>
        /\ ~out.raised
        /\ Len(out.wire) <= 1
        /\ (op.fault.stage # "none" => out.wire = <<>>)
        /\ Len(out.calls) = 1

\* A method call in which the encoding raised, and which came back normally.
C1_Witness ==
    /\ IsMethodCall
    /\ op.fault.stage = "encode"
    /\ ~out.raised
    /\ out.wire = <<>>

\* C2: a timing, gauge or counter call on a working socket puts exactly one
\* datagram on the wire, addressed to the client's (host, port), carrying
\* "<prefix>.<metric>:<value>|<code>" with code ms, g or c by method; and
\* every datagram of any call carries one of these three codes.
C2_OneDatagramPerCall ==
    /\ (IsMethodCall /\ op.fault = NoFault) =>
          LET self == clients[op.self]
              code == CASE op.name = "timing"  -> "ms"
                        [] op.name = "gauge"   -> "g"
                        [] op.name = "counter" -> "c"
          IN  /\ Len(out.wire) = 1
              /\ out.wire[1].addr = <<self.host, self.port>>
              /\ out.wire[1].payload =
                    self.prefix \o "." \o op.metric \o ":" \o Str(op.value) \o "|" \o code
    /\ \A i \in 1..Len(out.wire) :
          \E j \in 1..Len(out.calls), x \in Prefixes, code \in {"ms", "g", "c"} :
              out.wire[i].payload =
                  x \o "." \o out.calls[j].metric \o ":" \o Str(out.calls[j].value)
                    \o "|" \o code

\* send("x", 1.5, Timing) on a client with prefix "app" put "app.x:1.5|ms" on
\* the wire.
C2_Witness ==
    /\ op.name = "timing"
    /\ op.fault = NoFault
    /\ op.metric = "x"
    /\ op.value = PyFloat(1500)
    /\ out.wire = <<[addr |-> <<"h2", DefaultPort>>, payload |-> "app.x:1.5|ms"]>>

\* C3: record emits nothing when the logger has no client, whatever the
\* three inputs are, and nothing when it has one and all three are absent.
\* In both cases record is a no-op that returns normally.
C3_RecordSilent ==
    (IsRecord /\ (logger.client = None \/ stats = NoStats)) =>
        /\ out.calls = <<>>
        /\ out.wire = <<>>
        /\ ~out.raised

\* record ran on a logger without a client, with all three inputs present.
C3_Witness ==
    /\ IsRecord
    /\ logger.client = None
    /\ Present(stats.scheduler_stats)
    /\ Present(stats.iteration_stats)
    /\ Present(stats.mm_cache_stats)
    /\ out.wire = <<>>

IterationNames ==
    {"num_preemptions", "prompt_tokens", "generation_tokens",
     "time_to_first_token_seconds", "inter_token_latency_seconds",
     "vision_encoding_seconds", "e2e_request_latency_seconds",
     "request_queue_time_seconds", "request_inference_time_seconds",
     "request_prefill_time_seconds", "request_decode_time_seconds"}
    \cup {"request_success." \o r.finish_reason : r \in FinishedRequests}

SchedulerOnly ==
    /\ IsRecord
    /\ logger.client # None
    /\ Present(stats.scheduler_stats)
    /\ ~Present(stats.iteration_stats)
    /\ ~Present(stats.mm_cache_stats)

HasConnector == Present(stats.scheduler_stats[1].connector_prefix_cache_stats)

NoIterationMetric == \A i \in 1..Len(out.calls) : out.calls[i].metric \notin IterationNames

\* C4 as stated: with only scheduler_stats present record emits exactly 4
\* metrics (6 with connector_prefix_cache_stats) and no iteration metric.
C4_FourOrSix ==
    SchedulerOnly =>
        /\ Len(out.calls) = (IF HasConnector THEN 6 ELSE 4)
        /\ NoIterationMetric

\* C4 as amended: with only scheduler_stats present record emits exactly 5
\* metrics (the three gauges and the two prefix-cache counters), 7 with
\* connector_prefix_cache_stats, and no iteration metric.
C4_FiveOrSeven ==
    SchedulerOnly =>
        /\ Len(out.calls) = (IF HasConnector THEN 7 ELSE 5)
        /\ NoIterationMetric
        /\ [i \in 1..5 |-> out.calls[i].metric] =
              <<"num_requests_running", "num_requests_waiting", "kv_cache_usage_perc",
                "prefix_cache_queries", "prefix_cache_hits">>
        /\ [i \in 1..3 |-> out.calls[i].method] = <<"gauge", "gauge", "gauge">>

\* record ran with only scheduler_stats, with the connector pair, all sent.
C4_Witness ==
    /\ SchedulerOnly
    /\ HasConnector
    /\ op.fault = NoFault
    /\ Len(out.wire) = 7

\* The place of a metric name in the order of one record call.
Rank(metric) ==
    CASE metric = "num_requests_running"          -> 1
      [] metric = "num_requests_waiting"          -> 2
      [] metric = "kv_cache_usage_perc"           -> 3
      [] metric = "prefix_cache_queries"          -> 4
      [] metric = "prefix_cache_hits"             -> 5
      [] metric = "external_prefix_cache_queries" -> 6
      [] metric = "external_prefix_cache_hits"    -> 7
      [] metric = "mm_cache_queries"              -> 8
      [] metric = "mm_cache_hits"                 -> 9
      [] metric = "num_preemptions"               -> 10
      [] metric = "prompt_tokens"                 -> 11
      [] metric = "generation_tokens"             -> 12
      [] metric = "time_to_first_token_seconds"   -> 13
      [] metric = "inter_token_latency_seconds"   -> 14
      [] metric = "vision_encoding_seconds"       -> 15
      [] OTHER                                    -> 16

\* How many calls of the last operation carry a metric of rank r.
CountRank(r) == Cardinality({i \in 1..Len(out.calls) : Rank(out.calls[i].metric) = r})

PerRequest ==
    <<"e2e_request_latency_seconds", "request_queue_time_seconds",
      "request_inference_time_seconds", "request_prefill_time_seconds",
      "request_decode_time_seconds">>

RecordWithClient == IsRecord /\ logger.client # None

\* C5: the calls of one record come in the fixed order: the scheduler metrics
\* (running, waiting, kv usage, prefix-cache queries, hits, then the external
\* pair if present), the mm_cache pair, the three iteration counters, all
\* time_to_first_token timings, all inter_token_latency timings, all
\* vision_encoding timings, then per finished request, in list order, the
\* counter request_success.<finish_reason> followed by its five timings.
\* Each block is there exactly when its input is; with iteration_stats absent
\* nothing follows the scheduler and mm_cache blocks.  With no fault the
\* datagrams are these calls, in this order.
C5_FixedOrder ==
    RecordWithClient =>
        LET cs   == out.calls
            sch  == stats.scheduler_stats
            it   == stats.iteration_stats
            fin  == IF Present(it) THEN it[1].finished_requests ELSE <<>>
            head == Len(cs) - 6 * Len(fin)
        IN  /\ \A i, j \in 1..Len(cs) :
                  i < j => Rank(cs[i].metric) <= Rank(cs[j].metric)
            /\ \A r \in 1..5 : CountRank(r) = IF Present(sch) THEN 1 ELSE 0
            /\ \A r \in 6..7 :
                  CountRank(r) =
                      IF Present(sch) /\ Present(sch[1].connector_prefix_cache_stats)
                      THEN 1 ELSE 0
            /\ \A r \in 8..9 :
                  CountRank(r) = IF Present(stats.mm_cache_stats) THEN 1 ELSE 0
            /\ \A r \in 10..12 : CountRank(r) = IF Present(it) THEN 1 ELSE 0
            /\ ~Present(it) => \A r \in 13..16 : CountRank(r) = 0
            /\ CountRank(16) = 6 * Len(fin)
            /\ \A k \in 1..Len(fin) :
                  /\ cs[head + 6 * (k - 1) + 1].metric =
                        "request_success." \o fin[k].finish_reason
                  /\ cs[head + 6 * (k - 1) + 1].method = "counter"
                  /\ \A d \in 1..5 :
                        /\ cs[head + 6 * (k - 1) + 1 + d].metric = PerRequest[d]
                        /\ cs[head + 6 * (k - 1) + 1 + d].method = "timing"
            /\ op.fault = NoFault =>
                  /\ Len(out.wire) = Len(cs)
                  /\ \A i \in 1..Len(cs) :
                        out.wire[i].payload =
                            Expected(clients[logger.client], cs[i], CodeOf(cs[i]))

\* A record with every block: scheduler with the external pair, mm_cache, a
\* latency sample, and two finished requests with different reasons.
C5_Witness ==
    /\ RecordWithClient
    /\ Present(stats.scheduler_stats)
    /\ Present(stats.scheduler_stats[1].connector_prefix_cache_stats)
    /\ Present(stats.mm_cache_stats)
    /\ Present(stats.iteration_stats)
    /\ Len(stats.iteration_stats[1].inter_token_latencies_iter) = 1
    /\ Len(stats.iteration_stats[1].finished_requests) = 2
    /\ stats.iteration_stats[1].finished_requests[1].finish_reason = "length"
    /\ stats.iteration_stats[1].finished_requests[2].finish_reason = "stop"
    /\ Len(out.calls) = 7 + 2 + 3 + 1 + 12
    /\ out.wire[13].payload = "vllm.inter_token_latency_seconds:10.0|ms"
    /\ out.wire[14].payload = "vllm.request_success.length:1|c"
    /\ out.wire[20].payload = "vllm.request_success.stop:1|c"
    /\ out.wire[21].payload = "vllm.e2e_request_latency_seconds:2000.0|ms"

FieldMetric(f) ==
    CASE f = "time_to_first_tokens_iter"  -> "time_to_first_token_seconds"
      [] f = "inter_token_latencies_iter" -> "inter_token_latency_seconds"
      [] f = "vision_encoding_times_iter" -> "vision_encoding_seconds"

WithMetric(cs, metric) == SelectSeq(cs, LAMBDA c : c.metric = metric)

\* C6: for each of the three list fields, the timing calls under the field's
\* metric name are as many as the list has elements, and the i-th carries
\* the i-th element times 1000 (a float, in milliseconds); an empty list
\* gives none.  [0.01, 0.02] goes out as "10.0" and "20.0".
C6_OneTimingPerElement ==
    (RecordWithClient /\ Present(stats.iteration_stats)) =>
        /\ \A f \in IterFields :
              LET xs == stats.iteration_stats[1][f]
                  ts == WithMetric(out.calls, FieldMetric(f))
              IN  /\ Len(ts) = Len(xs)
                  /\ \A i \in 1..Len(xs) :
                        /\ ts[i].method = "timing"
                        /\ ts[i].value.k = "float"
                        /\ ts[i].value.m = 1000 * xs[i].m
        /\ (/\ op.fault = NoFault
            /\ stats.iteration_stats[1].time_to_first_tokens_iter
                  = <<PyFloat(10), PyFloat(20)>>) =>
              SelectSeq([i \in 1..Len(out.wire) |-> out.wire[i].payload],
                        LAMBDA b : b \in {"vllm.time_to_first_token_seconds:10.0|ms",
                                          "vllm.time_to_first_token_seconds:20.0|ms"})
                  = <<"vllm.time_to_first_token_seconds:10.0|ms",
                      "vllm.time_to_first_token_seconds:20.0|ms">>

\* time_to_first_tokens_iter = [0.01, 0.02], one vision time, no
\* inter-token latency: two, one and zero timings.
C6_Witness ==
    /\ RecordWithClient
    /\ Present(stats.iteration_stats)
    /\ stats.iteration_stats[1].time_to_first_tokens_iter = <<PyFloat(10), PyFloat(20)>>
    /\ stats.iteration_stats[1].inter_token_latencies_iter = <<>>
    /\ Len(stats.iteration_stats[1].vision_encoding_times_iter) = 1
    /\ op.fault = NoFault
    /\ Len(WithMetric(out.calls, "time_to_first_token_seconds")) = 2
    /\ Len(WithMetric(out.calls, "inter_token_latency_seconds")) = 0
    /\ Len(WithMetric(out.calls, "vision_encoding_seconds")) = 1

C8_AtMostOneClient ==
    /\ Len(clients) <= 1
    /\ \A t, u \in Threads :
          (frame[t].ret # None /\ frame[u].ret # None) => frame[t].ret = frame[u].ret

\* C9: record_metric hands the value, unchanged, to
\* record_vision_encoding_time exactly once when the metric is
\* "vision_encoding_seconds" and the kind "timing", client or no client, and
\* never otherwise; and when get_statsd_client returned a client it makes one
\* client call: timing with value * 1000, counter or gauge with the value.
C9_BufferAndNetwork ==
    op.name = "record_metric" =>
        /\ out.sink = IF op.metric = "vision_encoding_seconds"
                         /\ op.metric_type = "timing"
                      THEN <<op.value>> ELSE <<>>
        /\ out.ret = None => out.calls = <<>>
        /\ (out.ret # None /\ op.metric_type = "timing") =>
              out.calls = <<[method |-> "timing", metric |-> op.metric,
                             value |-> [k |-> op.value.k, m |-> 1000 * op.value.m]]>>
        /\ (out.ret # None /\ op.metric_type \in {"counter", "gauge"}) =>
              out.calls = <<[method |-> op.metric_type, metric |-> op.metric,
                             value |-> op.value]>>
        /\ ~out.raised

\* record_metric("vision_encoding_seconds", 1.5, "timing") with a client:
\* 1.5 went to the buffer and 1500.0 ms onto the wire.
C9_Witness ==
    /\ op.name = "record_metric"
    /\ op.metric = "vision_encoding_seconds"
    /\ op.metric_type = "timing"
    /\ op.value = PyFloat(1500)
    /\ out.ret # None
    /\ out.sink = <<PyFloat(1500)>>
    /\ Len(out.wire) = 1
    /\ out.wire[1].payload = "vllm.vision_encoding_seconds:1500.0|ms"

====
